---- MODULE Spec2Model ----
(***************************************************************************)
(* Smart-Megazen: the classification / aggregation / alarm engine.         *)
(*                                                                         *)
(*   mobile/src/shared/MegazenService.js   isNodeStale, getNodeStatus,     *)
(*                                         getWarehouseStatus              *)
(*   mobile/src/navigation/AppNavigator.js useLiveWarehouse (mobile hook)  *)
(*                                                                         *)
(* Encoding of JavaScript values                                           *)
(*   - an object is a function over the set of keys it has; a field that   *)
(*     is undefined is a key that is not in the DOMAIN (the store never    *)
(*     holds a null-valued field);                                         *)
(*   - null is the record Null; a nullable number n is Some(n);            *)
(*   - hum, temp, battery and the thresholds are integers; x > limit * 1.1 *)
(*     is computed as 10 * x > 11 * limit (for integer readings the IEEE   *)
(*     product limit * 1.1 never rounds below the exact value, so the      *)
(*     comparison agrees);                                                 *)
(*   - averageTemp / averageHum are held in tenths (850 stands for 85.0);  *)
(*   - unit identifiers are "n1", "n2", ... ; Object.keys lists them in     *)
(*     that order.                                                         *)
(***************************************************************************)
EXTENDS Integers, Sequences, FiniteSets, TLC

VARIABLES
    mounted,            \* the hook's effects have run (subscriptions live)
    platformOS,         \* Platform.OS of the running build
    now,                \* Date.now()
    readings,           \* useState({})
    thresholds,         \* useState(DEFAULT_THRESHOLDS)
    alerts,             \* useState([])
    warehouseStatus,    \* useState(null)
    lastSync,           \* useState(null)
    isConnected,        \* useState(false)
    amberAlertActive,   \* useState(false)
    prevOverall,        \* useRef(null)
    alarmLog,           \* what the last recomputations published and did
    lastEvent,          \* the handler that ran last
    subscriptions,      \* MegazenService: the subscribe calls made so far
    listeners,          \* the store's registered value listeners
    activeListeners,    \* MegazenService._activeListeners (Map)
    revoked,            \* subscriptions whose unsubscribe handle has run
    invoked,            \* callbacks invoked by the last delivery
    alertLog,           \* the store's value at the alerts path
    csv,                \* the text produced by the last CSV export
    storeThresholds,    \* the store's value at the thresholds path
    desktop,            \* the state of the desktop useLiveWarehouse
    screen              \* the state of ThresholdScreen

serviceVars == <<subscriptions, listeners, activeListeners, revoked, invoked>>

exportVars == <<alertLog, csv>>

desktopVars == <<storeThresholds, desktop, screen>>

vars == <<mounted, platformOS, now, readings, thresholds, alerts,
          warehouseStatus, lastSync, isConnected, amberAlertActive,
          prevOverall, alarmLog, lastEvent, serviceVars, exportVars,
          desktopVars>>

-----------------------------------------------------------------------------
(* Bounds of the model *)

MaxNodes == 2          \* units in the fleet: "n1" .. "n<MaxNodes>"
LogLen == 5            \* recomputations remembered in alarmLog
MaxTicks == 1          \* clock steps after Epoch

(* Program constants *)

STALE_THRESHOLD_MS == 120000

DEFAULT_THRESHOLDS ==
    [max_humidity |-> 60, max_temperature |-> 30, min_battery |-> 20]

-----------------------------------------------------------------------------
(* JavaScript values *)

Null == [null |-> TRUE]

Some(n) == [value |-> n]

EmptyObject == <<>>

Opt(S) == {Null} \cup {Some(x) : x \in S}

Has(obj, key) == obj # Null /\ key \in DOMAIN obj

\* obj.key, undefined (Null here) when the key is missing
Get(obj, key) == IF Has(obj, key) THEN Some(obj[key]) ELSE Null

\* a > b for operands that may be undefined: a comparison with undefined
\* (or with NaN, the product of undefined) is false
Gt10(obj, key, limits, lkey, num, den) ==
    /\ Has(obj, key)
    /\ Has(limits, lkey)
    /\ den * obj[key] > num * limits[lkey]

\* x ?? 0
OrZero(obj, key) == IF Has(obj, key) THEN obj[key] ELSE 0

\* { ...a, ...b }
Spread(a, b) ==
    [k \in DOMAIN a \cup DOMAIN b |-> IF k \in DOMAIN b THEN b[k] ELSE a[k]]

\* parseFloat((sum / count).toFixed(1)), in tenths; toFixed rounds a tie up
ToFixed1(sum, count) == (20 * sum + count) \div (2 * count)

NodeNames == <<"n1", "n2", "n3", "n4">>

InDomainOf(obj) == [k \in {NodeNames[i] : i \in 1..Len(NodeNames)} |-> k \in DOMAIN obj]

\* Object.keys(readings)
ObjectKeys(obj) == LET present == InDomainOf(obj)
                       Keep(k) == present[k]
                   IN SelectSeq(NodeNames, Keep)

-----------------------------------------------------------------------------
(* Pure functions of MegazenService.js *)

\* mutant: >= in place of >
isNodeStale_ge(lastSeenTimestamp, t) ==
    IF lastSeenTimestamp = Null \/ lastSeenTimestamp.value = 0 THEN TRUE
    ELSE t - lastSeenTimestamp.value >= STALE_THRESHOLD_MS

\* !lastSeenTimestamp holds of undefined and of 0
isNodeStale(lastSeenTimestamp, t) ==
    IF lastSeenTimestamp = Null \/ lastSeenTimestamp.value = 0 THEN TRUE
    ELSE t - lastSeenTimestamp.value > STALE_THRESHOLD_MS

\* mutant: the limits are checked before staleness
getNodeStatus_classifyFirst(node, th, t) ==
    IF node = Null THEN "Offline"
    ELSE IF Gt10(node, "hum", th, "max_humidity", 11, 10)
            \/ Gt10(node, "temp", th, "max_temperature", 11, 10) THEN "Critical"
    ELSE IF isNodeStale(Get(node, "timestamp"), t) THEN "Offline"
    ELSE IF Gt10(node, "hum", th, "max_humidity", 1, 1)
            \/ Gt10(node, "temp", th, "max_temperature", 1, 1) THEN "At Risk"
    ELSE "Optimal"

\* mutant: a battery below the floor makes the unit At Risk
getNodeStatus_battery(node, th, t) ==
    IF node = Null \/ isNodeStale(Get(node, "timestamp"), t) THEN "Offline"
    ELSE IF Gt10(node, "hum", th, "max_humidity", 11, 10)
            \/ Gt10(node, "temp", th, "max_temperature", 11, 10) THEN "Critical"
    ELSE IF Gt10(node, "hum", th, "max_humidity", 1, 1)
            \/ Gt10(node, "temp", th, "max_temperature", 1, 1)
            \/ (Has(node, "battery") /\ Has(th, "min_battery")
                /\ node.battery < th.min_battery) THEN "At Risk"
    ELSE "Optimal"

getNodeStatus(node, th, t) ==
    IF node = Null \/ isNodeStale(Get(node, "timestamp"), t) THEN "Offline"
    ELSE LET humCritical  == Gt10(node, "hum",  th, "max_humidity", 11, 10)
             tempCritical == Gt10(node, "temp", th, "max_temperature", 11, 10)
             humRisk      == Gt10(node, "hum",  th, "max_humidity", 1, 1)
             tempRisk     == Gt10(node, "temp", th, "max_temperature", 1, 1)
         IN IF humCritical \/ tempCritical THEN "Critical"
            ELSE IF humRisk \/ tempRisk THEN "At Risk"
            ELSE "Optimal"

EmptySnapshot ==
    [overallStatus      |-> "No Data",
     averageTemp        |-> 0,
     averageHum         |-> 0,
     totalNodes         |-> 0,
     onlineNodes        |-> 0,
     offlineNodes       |-> 0,
     atRiskNodesCount   |-> 0,
     criticalNodesCount |-> 0,
     lowBatteryNodes    |-> <<>>,
     enrichedNodes      |-> EmptyObject]

\* mutant: the age is computed whether or not there is a timestamp
Enrich_ageAlways(node, nodeId, status, t) ==
    Spread(IF node = Null THEN EmptyObject ELSE node,
           [nodeId      |-> nodeId,
            status      |-> status,
            isOnline    |-> status # "Offline",
            lastSeenAgo |-> Some((t - OrZero(node, "timestamp")) \div 1000)])

\* mutant: the fields of the reading are spread over the computed ones
Enrich_nodeLast(node, nodeId, status, t) ==
    Spread([nodeId      |-> nodeId,
            status      |-> status,
            isOnline    |-> status # "Offline",
            lastSeenAgo |-> IF Has(node, "timestamp") /\ node.timestamp # 0
                            THEN Some((t - node.timestamp) \div 1000)
                            ELSE Null],
           IF node = Null THEN EmptyObject ELSE node)

\* the enriched record { ...node, nodeId, status, isOnline, lastSeenAgo }
Enrich(node, nodeId, status, t) ==
    Spread(IF node = Null THEN EmptyObject ELSE node,
           [nodeId      |-> nodeId,
            status      |-> status,
            isOnline    |-> status # "Offline",
            lastSeenAgo |-> IF Has(node, "timestamp") /\ node.timestamp # 0
                            THEN Some((t - node.timestamp) \div 1000)
                            ELSE Null])

\* mutant: <= in place of <
LowBattery_le(node, th) ==
    /\ Has(node, "battery")
    /\ Has(th, "min_battery")
    /\ node.battery <= th.min_battery

LowBattery(node, th) ==
    /\ Has(node, "battery")
    /\ Has(th, "min_battery")
    /\ node.battery < th.min_battery

\* mutant: the battery is tested for every unit, online or not
LoopBody_batteryOfAll(acc, nodeId, rd, th, t) ==
    LET node     == rd[nodeId]
        status   == getNodeStatus(node, th, t)
        isOnline == status # "Offline"
    IN [tempSum         |-> acc.tempSum + (IF isOnline THEN OrZero(node, "temp") ELSE 0),
        humSum          |-> acc.humSum + (IF isOnline THEN OrZero(node, "hum") ELSE 0),
        onlineCount     |-> acc.onlineCount + (IF isOnline THEN 1 ELSE 0),
        atRiskCount     |-> acc.atRiskCount + (IF status = "At Risk" THEN 1 ELSE 0),
        criticalCount   |-> acc.criticalCount + (IF status = "Critical" THEN 1 ELSE 0),
        lowBatteryNodes |-> IF LowBattery(node, th)
                            THEN Append(acc.lowBatteryNodes, nodeId)
                            ELSE acc.lowBatteryNodes,
        enrichedNodes   |-> Spread(acc.enrichedNodes,
                                   [k \in {nodeId} |-> Enrich(node, nodeId, status, t)])]

\* mutant: the sums are accumulated for every unit, online or not
LoopBody_allUnits(acc, nodeId, rd, th, t) ==
    LET node     == rd[nodeId]
        status   == getNodeStatus(node, th, t)
        isOnline == status # "Offline"
    IN [tempSum         |-> acc.tempSum + OrZero(node, "temp"),
        humSum          |-> acc.humSum + OrZero(node, "hum"),
        onlineCount     |-> acc.onlineCount + (IF isOnline THEN 1 ELSE 0),
        atRiskCount     |-> acc.atRiskCount + (IF status = "At Risk" THEN 1 ELSE 0),
        criticalCount   |-> acc.criticalCount + (IF status = "Critical" THEN 1 ELSE 0),
        lowBatteryNodes |-> IF isOnline /\ LowBattery(node, th)
                            THEN Append(acc.lowBatteryNodes, nodeId)
                            ELSE acc.lowBatteryNodes,
        enrichedNodes   |-> Spread(acc.enrichedNodes,
                                   [k \in {nodeId} |-> Enrich(node, nodeId, status, t)])]

\* one iteration of the for loop of getWarehouseStatus
LoopBody(acc, nodeId, rd, th, t) ==
    LET node     == rd[nodeId]
        status   == getNodeStatus(node, th, t)
        isOnline == status # "Offline"
    IN [tempSum         |-> acc.tempSum + (IF isOnline THEN OrZero(node, "temp") ELSE 0),
        humSum          |-> acc.humSum + (IF isOnline THEN OrZero(node, "hum") ELSE 0),
        onlineCount     |-> acc.onlineCount + (IF isOnline THEN 1 ELSE 0),
        atRiskCount     |-> acc.atRiskCount + (IF status = "At Risk" THEN 1 ELSE 0),
        criticalCount   |-> acc.criticalCount + (IF status = "Critical" THEN 1 ELSE 0),
        lowBatteryNodes |-> IF isOnline /\ LowBattery(node, th)
                            THEN Append(acc.lowBatteryNodes, nodeId)
                            ELSE acc.lowBatteryNodes,
        enrichedNodes   |-> Spread(acc.enrichedNodes,
                                   [k \in {nodeId} |-> Enrich(node, nodeId, status, t)])]

RECURSIVE Loop(_, _, _, _, _, _)
Loop(acc, nodeIds, i, rd, th, t) ==
    IF i > Len(nodeIds) THEN acc
    ELSE Loop(LoopBody(acc, nodeIds[i], rd, th, t), nodeIds, i + 1, rd, th, t)

\* mutant: At Risk is tested before Critical
OverallOf_riskFirst(criticalCount, atRiskCount, onlineCount) ==
    IF atRiskCount > 0 THEN "At Risk"
    ELSE IF criticalCount > 0 THEN "Critical"
    ELSE IF onlineCount = 0 THEN "No Data"
    ELSE "Optimal"

OverallOf(criticalCount, atRiskCount, onlineCount) ==
    IF criticalCount > 0 THEN "Critical"
    ELSE IF atRiskCount > 0 THEN "At Risk"
    ELSE IF onlineCount = 0 THEN "No Data"
    ELSE "Optimal"

getWarehouseStatus(rd, th, t) ==
    LET nodeIds == ObjectKeys(rd)
    IN IF Len(nodeIds) = 0 THEN EmptySnapshot
       ELSE LET acc == Loop([tempSum |-> 0, humSum |-> 0, onlineCount |-> 0,
                             atRiskCount |-> 0, criticalCount |-> 0,
                             lowBatteryNodes |-> <<>>, enrichedNodes |-> EmptyObject],
                            nodeIds, 1, rd, th, t)
            IN [overallStatus      |-> OverallOf(acc.criticalCount, acc.atRiskCount,
                                                 acc.onlineCount),
                averageTemp        |-> IF acc.onlineCount > 0
                                       THEN ToFixed1(acc.tempSum, acc.onlineCount) ELSE 0,
                averageHum         |-> IF acc.onlineCount > 0
                                       THEN ToFixed1(acc.humSum, acc.onlineCount) ELSE 0,
                totalNodes         |-> Len(nodeIds),
                onlineNodes        |-> acc.onlineCount,
                offlineNodes       |-> Len(nodeIds) - acc.onlineCount,
                atRiskNodesCount   |-> acc.atRiskCount,
                criticalNodesCount |-> acc.criticalCount,
                lowBatteryNodes    |-> acc.lowBatteryNodes,
                enrichedNodes      |-> acc.enrichedNodes]

\* NodeHealthBar: the keys of SEGMENTS, in order Optimal, At Risk, Critical,
\* Offline
SEGMENTS ==
    <<"optimalNodesCount", "atRiskNodesCount", "criticalNodesCount", "offlineNodes">>

\* count of a segment: warehouseStatus?.[s.key] ?? 0
SegmentCount(ws, key) == IF Has(ws, key) THEN ws[key] ELSE 0

\* the counts NodeHealthBar draws, in the order of SEGMENTS
NodeHealthBar(ws) == [i \in 1..Len(SEGMENTS) |-> SegmentCount(ws, SEGMENTS[i])]

-----------------------------------------------------------------------------
(* The environment: clock values and what the store can deliver *)

Epoch == 10 * STALE_THRESHOLD_MS

TickMs == STALE_THRESHOLD_MS + 1

NodeIds == {NodeNames[i] : i \in 1..MaxNodes}

\* readings a unit can report at time t: safe, above the ceiling, more than
\* 10% above the ceiling, and silent for longer than the timeout
SampleOk(t)  == [hum |-> 50, temp |-> 20, battery |-> 50, timestamp |-> t]
SampleMid(t) == [hum |-> 63, temp |-> 20, battery |-> 10, timestamp |-> t]
SampleHot(t) == [hum |-> 70, temp |-> 20, battery |-> 50, timestamp |-> t]
SampleOld(t) == [hum |-> 90, temp |-> 40, battery |-> 5,
                 timestamp |-> t - STALE_THRESHOLD_MS - 1]

\* values of snapshot.val() at the readings path at time t
LiveReadings(t) ==
    {Null,
     [k \in {"n1"} |-> SampleOk(t)],
     [k \in {"n1"} |-> SampleMid(t)],
     [k \in {"n1"} |-> SampleOld(t)],
     [k \in {"n1", "n2"} |-> IF k = "n1" THEN SampleOk(t) ELSE SampleHot(t)]}

\* values of snapshot.val() at the thresholds path
RemoteThresholds == {Null, [max_humidity |-> 55]}

Platforms == {"ios", "web"}

-----------------------------------------------------------------------------
(* MegazenService: the projections applied to what the store delivers *)

AlertKeys == <<"a1", "a2", "a3">>

\* Object.entries(raw): the records of the log in key order
ObjectEntries(raw) ==
    LET present == [k \in {AlertKeys[i] : i \in 1..Len(AlertKeys)} |-> k \in DOMAIN raw]
        Keep(k) == present[k]
    IN SelectSeq(AlertKeys, Keep)

\* b.timestamp ?? 0, a.timestamp ?? 0
SortKey(alert) == OrZero(alert, "timestamp")

\* mutant: oldest first
InsertByTimestamp_ascending(sorted, alert) ==
    LET before == Cardinality({i \in 1..Len(sorted) : SortKey(sorted[i]) <= SortKey(alert)})
    IN SubSeq(sorted, 1, before) \o <<alert>> \o SubSeq(sorted, before + 1, Len(sorted))

\* one step of the stable sort with (a, b) => (b.timestamp ?? 0) -
\* (a.timestamp ?? 0): alert goes behind every element that does not
\* compare after it
InsertByTimestamp(sorted, alert) ==
    LET before == Cardinality({i \in 1..Len(sorted) : SortKey(sorted[i]) >= SortKey(alert)})
    IN SubSeq(sorted, 1, before) \o <<alert>> \o SubSeq(sorted, before + 1, Len(sorted))

RECURSIVE SortAlerts(_)
SortAlerts(list) ==
    IF Len(list) = 0 THEN <<>>
    ELSE InsertByTimestamp(SortAlerts(SubSeq(list, 1, Len(list) - 1)), list[Len(list)])

\* ([id, alert]) => ({ id, ...alert })
ProjectAlert(id, alert) == Spread([id |-> id], alert)

\* Object.entries(raw).map(...).sort(...)
ProjectAlerts(raw) ==
    LET entries == ObjectEntries(raw)
    IN SortAlerts([i \in 1..Len(entries) |-> ProjectAlert(entries[i], raw[entries[i]])])

\* new MegazenService(app): no subscription, an empty Map
ServiceConstructed ==
    /\ subscriptions = <<>>
    /\ listeners = {}
    /\ activeListeners = <<>>
    /\ revoked = {}
    /\ invoked = {}

\* nothing has been exported, the alert log of the store is empty
NothingExported ==
    /\ alertLog = <<>>
    /\ csv = <<>>

\* the initial values of ThresholdScreen's draft
InitialDraft ==
    [max_humidity |-> 60, max_temperature |-> 30, min_battery |-> 20]

\* the desktop application before its first render: the useState initial
\* values of the desktop hook and of ThresholdScreen, nothing stored at the
\* thresholds path
DesktopConstructed ==
    /\ storeThresholds = Null
    /\ desktop = [mounted         |-> FALSE,
                  readings        |-> EmptyObject,
                  thresholds      |-> DEFAULT_THRESHOLDS,
                  alerts          |-> <<>>,
                  warehouseStatus |-> Null,
                  lastSync        |-> Null,
                  isConnected     |-> FALSE]
    /\ screen = [draft    |-> InitialDraft,
                 saving   |-> FALSE,
                 saved    |-> FALSE,
                 error    |-> Null,
                 inFlight |-> Null,
                 timers   |-> 0]

-----------------------------------------------------------------------------
(* useLiveWarehouse (mobile) *)

Push(log, entry) ==
    IF Len(log) < LogLen THEN Append(log, entry) ELSE Append(Tail(log), entry)

\* mutant: prevOverall.current is never stored
Aggregation_noPrevUpdate(rd, th) ==
    LET snapshot == getWarehouseStatus(rd, th, now)
        enter    == snapshot.overallStatus = "Critical" /\ prevOverall # "Critical"
    IN /\ warehouseStatus' = snapshot
       /\ amberAlertActive' = IF enter THEN TRUE ELSE amberAlertActive
       /\ prevOverall' = prevOverall
       /\ alarmLog' = Push(alarmLog,
                           [critical  |-> snapshot.overallStatus = "Critical",
                            activated |-> enter,
                            haptic    |-> enter /\ platformOS # "web"])

\* mutant: level trigger, the alarm is raised at every Critical snapshot
Aggregation_level(rd, th) ==
    LET snapshot == getWarehouseStatus(rd, th, now)
        enter    == snapshot.overallStatus = "Critical"
    IN /\ warehouseStatus' = snapshot
       /\ amberAlertActive' = IF enter THEN TRUE ELSE amberAlertActive
       /\ prevOverall' = snapshot.overallStatus
       /\ alarmLog' = Push(alarmLog,
                           [critical  |-> snapshot.overallStatus = "Critical",
                            activated |-> enter,
                            haptic    |-> enter /\ platformOS # "web"])

\* the STATUS AGGREGATION effect, run after a render in which readings or
\* thresholds changed; rd and th are the values of that render.  Every
\* delivery stores a fresh object, so every delivery changes a dependency
\* and React runs the effect before it handles the next event: a handler
\* and the effect it causes are one step.
Aggregation(rd, th) ==
    LET snapshot == getWarehouseStatus(rd, th, now)
        enter    == snapshot.overallStatus = "Critical" /\ prevOverall # "Critical"
    IN /\ warehouseStatus' = snapshot
       /\ amberAlertActive' = IF enter THEN TRUE ELSE amberAlertActive
       /\ prevOverall' = snapshot.overallStatus
       /\ alarmLog' = Push(alarmLog,
                           [critical  |-> snapshot.overallStatus = "Critical",
                            activated |-> enter,
                            haptic    |-> enter /\ platformOS # "web"])

\* first render: both effects run, the aggregation effect on the initial state
MountRender ==
    /\ ~mounted
    /\ mounted' = TRUE
    /\ Aggregation(readings, thresholds)
    /\ lastEvent' = "mount"
    /\ UNCHANGED <<platformOS, now, readings, thresholds, alerts, lastSync, isConnected>>

\* the first render of the mobile application; nothing else moves
Mount ==
    /\ MountRender
    /\ UNCHANGED <<serviceVars, exportVars, desktopVars>>

\* mutant: the effect sees the readings of the render before the delivery
OnReadings_staleRender(val) ==
    /\ mounted
    /\ LET data == IF val = Null THEN EmptyObject ELSE val
       IN /\ readings' = data
          /\ lastSync' = Some(now)
          /\ isConnected' = TRUE
          /\ Aggregation(readings, thresholds)
    /\ lastEvent' = "readings"
    /\ UNCHANGED <<mounted, platformOS, now, thresholds, alerts>>

\* the readings handler of subscribeToReadings and the hook's callback
ReadingsCallback(val) ==
    /\ mounted
    /\ LET data == IF val = Null THEN EmptyObject ELSE val
       IN /\ readings' = data
          /\ lastSync' = Some(now)
          /\ isConnected' = TRUE
          /\ Aggregation(data, thresholds)
    /\ lastEvent' = "readings"
    /\ UNCHANGED <<mounted, platformOS, now, thresholds, alerts>>

\* a readings delivery to the mobile application; nothing else moves
OnReadings(val) ==
    /\ ReadingsCallback(val)
    /\ UNCHANGED <<serviceVars, exportVars, desktopVars>>

\* mutant: a thresholds delivery publishes the snapshot and leaves the
\* alarm alone
OnThresholds_noAlarm(val) ==
    /\ mounted
    /\ LET data == IF val = Null THEN DEFAULT_THRESHOLDS ELSE val
           merged == Spread(DEFAULT_THRESHOLDS, data)
           snapshot == getWarehouseStatus(readings, merged, now)
       IN /\ thresholds' = merged
          /\ warehouseStatus' = snapshot
          /\ prevOverall' = snapshot.overallStatus
          /\ alarmLog' = Push(alarmLog,
                              [critical  |-> snapshot.overallStatus = "Critical",
                               activated |-> FALSE,
                               haptic    |-> FALSE])
          /\ UNCHANGED amberAlertActive
    /\ lastEvent' = "thresholds"
    /\ UNCHANGED <<mounted, platformOS, now, readings, alerts, lastSync, isConnected>>

\* mutant: the delivered fields are merged over the previous thresholds
OnThresholds_mergePrevious(val) ==
    /\ mounted
    /\ LET data == IF val = Null THEN DEFAULT_THRESHOLDS ELSE val
           merged == Spread(thresholds, data)
       IN /\ thresholds' = merged
          /\ Aggregation(readings, merged)
    /\ lastEvent' = "thresholds"
    /\ UNCHANGED <<mounted, platformOS, now, readings, alerts, lastSync, isConnected>>

\* the thresholds handler of subscribeToThresholds and the hook's callback
ThresholdsCallback(val) ==
    /\ mounted
    /\ LET data == IF val = Null THEN DEFAULT_THRESHOLDS ELSE val
           merged == Spread(DEFAULT_THRESHOLDS, data)
       IN /\ thresholds' = merged
          /\ Aggregation(readings, merged)
    /\ lastEvent' = "thresholds"
    /\ UNCHANGED <<mounted, platformOS, now, readings, alerts, lastSync, isConnected>>

\* a thresholds delivery to the mobile application; nothing else moves
OnThresholds(val) ==
    /\ ThresholdsCallback(val)
    /\ UNCHANGED <<serviceVars, exportVars, desktopVars>>

\* mutant: acknowledging also forgets the previous overall status
dismissAmberAlert_resetPrev ==
    /\ mounted
    /\ amberAlertActive' = FALSE
    /\ prevOverall' = "null"
    /\ lastEvent' = "dismiss"
    /\ UNCHANGED <<serviceVars, exportVars, desktopVars>>
    /\ UNCHANGED <<mounted, platformOS, now, readings, thresholds, alerts,
                   warehouseStatus, lastSync, isConnected, alarmLog>>

dismissAmberAlert ==
    /\ mounted
    /\ amberAlertActive' = FALSE
    /\ lastEvent' = "dismiss"
    /\ UNCHANGED <<serviceVars, exportVars, desktopVars>>
    /\ UNCHANGED <<mounted, platformOS, now, readings, thresholds, alerts,
                   warehouseStatus, lastSync, isConnected, prevOverall, alarmLog>>

\* the clock advances; no handler runs
Tick ==
    /\ now < Epoch + MaxTicks * TickMs
    /\ now' = now + TickMs
    /\ UNCHANGED <<serviceVars, exportVars, desktopVars>>
    /\ UNCHANGED <<mounted, platformOS, readings, thresholds, alerts,
                   warehouseStatus, lastSync, isConnected, amberAlertActive,
                   prevOverall, alarmLog, lastEvent>>

Init ==
    /\ mounted = FALSE
    /\ platformOS \in Platforms
    /\ now = Epoch
    /\ readings = EmptyObject
    /\ thresholds = DEFAULT_THRESHOLDS
    /\ alerts = <<>>
    /\ warehouseStatus = Null
    /\ lastSync = Null
    /\ isConnected = FALSE
    /\ amberAlertActive = FALSE
    /\ prevOverall = "null"
    /\ alarmLog = <<>>
    /\ lastEvent = "render"
    /\ ServiceConstructed
    /\ DesktopConstructed
    /\ NothingExported

Next ==
    \/ Mount
    \/ \E val \in LiveReadings(now) : OnReadings(val)
    \/ \E val \in RemoteThresholds : OnThresholds(val)
    \/ dismissAmberAlert
    \/ Tick

Spec == Init /\ [][Next]_vars

-----------------------------------------------------------------------------
(* The three streams of the hook: readings, thresholds and the alert log *)

AlertAt(node, t) ==
    [nodeId |-> node, type |-> "humidity", value |-> 71, threshold |-> 60,
     timestamp |-> t]

\* values of snapshot.val() at the alerts path
StreamAlertLogs ==
    {Null,
     [k \in {"a1"} |-> AlertAt("n1", Epoch)],
     [k \in {"a1", "a2"} |-> IF k = "a1" THEN AlertAt("n1", Epoch)
                             ELSE AlertAt("n2", Epoch + 1)]}

\* values of snapshot.val() at the readings path
StreamReadings(t) ==
    {Null,
     [k \in {"n1"} |-> SampleMid(t)],
     [k \in {"n1", "n2"} |-> IF k = "n1" THEN SampleOk(t) ELSE SampleHot(t)]}

\* values of snapshot.val() at the thresholds path: nothing stored, one
\* field stored, another field stored, every field stored
StreamThresholds ==
    {Null,
     [max_humidity |-> 55],
     [max_temperature |-> 25],
     [max_humidity |-> 65, max_temperature |-> 35, min_battery |-> 15]}

\* mutant: the alert log is a dependency of the aggregation effect
OnAlerts_recompute(val) ==
    /\ mounted
    /\ LET raw == IF val = Null THEN EmptyObject ELSE val
       IN alerts' = ProjectAlerts(raw)
    /\ Aggregation(readings, thresholds)
    /\ lastEvent' = "alerts"
    /\ UNCHANGED <<mounted, platformOS, now, readings, thresholds, lastSync, isConnected>>

\* the alerts handler of subscribeToAlerts and the hook's callback; alerts
\* is not a dependency of the aggregation effect
AlertsCallback(val) ==
    /\ mounted
    /\ LET raw == IF val = Null THEN EmptyObject ELSE val
       IN alerts' = ProjectAlerts(raw)
    /\ lastEvent' = "alerts"
    /\ UNCHANGED <<mounted, platformOS, now, readings, thresholds,
                   warehouseStatus, lastSync, isConnected, amberAlertActive,
                   prevOverall, alarmLog>>

\* an alerts delivery to the mobile application; nothing else moves
OnAlerts(val) ==
    /\ AlertsCallback(val)
    /\ UNCHANGED <<serviceVars, exportVars, desktopVars>>

NextStreams ==
    \/ Mount
    \/ \E val \in StreamReadings(now) : OnReadings(val)
    \/ \E val \in StreamThresholds : OnThresholds(val)
    \/ \E val \in StreamAlertLogs : OnAlerts(val)
    \/ dismissAmberAlert

\* the streams do not depend on the platform: one build is enough
InitStreams == Init /\ platformOS = "ios"

SpecStreams == InitStreams /\ [][NextStreams]_vars

-----------------------------------------------------------------------------
(* The hook while the clock runs.  The hook sets no timer: the aggregation *)
(* effect runs after a render in which readings or thresholds changed and  *)
(* at no other time.  The first render and the passing of time are certain *)
(* to happen; a delivery happens only when the store has something new.    *)

NextClock ==
    \/ Mount
    \/ \E val \in StreamReadings(now) : OnReadings(val)
    \/ Tick

SpecClock == InitStreams /\ [][NextClock]_vars /\ WF_vars(Mount) /\ WF_vars(Tick)

-----------------------------------------------------------------------------
(* MegazenService: subscriptions and their revocation                      *)
(*                                                                         *)
(* The service uses the modular API of firebase/database:                  *)
(*   onValue(query, callback) registers callback for value events at the   *)
(*     query and RETURNS an Unsubscribe function (not the callback);       *)
(*   off(query, 'value', f) removes the registrations at the query whose   *)
(*     callback is f, and does nothing (no error) if there is none.        *)
(* A function value is modelled by what identifies it: the kind of closure *)
(* and the subscribe call that created it.                                 *)

MaxSubs == 3           \* subscribe calls made on one service instance

hookVars == <<mounted, platformOS, now, readings, thresholds, alerts,
              warehouseStatus, lastSync, isConnected, amberAlertActive,
              prevOverall, alarmLog>>

\* the (snapshot) => { ... callback(...) } closure of the i-th subscribe call
SnapshotCallback(i) == [fn |-> "snapshotCallback", sub |-> i]

\* the function that onValue returned to the i-th subscribe call
Unsubscribe(i) == [fn |-> "unsubscribe", sub |-> i]

onValue(regs, path, callback) == regs \cup {[path |-> path, callback |-> callback]}

off(regs, path, callback) ==
    {r \in regs : ~(r.path = path /\ r.callback = callback)}

\* `node_${nodeId}`
NodeKey(nodeId) == IF nodeId = "n1" THEN "node_n1" ELSE "node_n2"

\* the keys under which the four subscribe methods file their handle
StreamKeys == {"readings", NodeKey("n1"), "thresholds", "alerts"}

\* READINGS_PATH, `${READINGS_PATH}/${nodeId}`, THRESHOLDS_PATH, ALERTS_PATH
PathOf(key) ==
    CASE key = "readings"   -> "readings"
      [] key = "node_n1"    -> "readings/n1"
      [] key = "node_n2"    -> "readings/n2"
      [] key = "thresholds" -> "configs/thresholds"
      [] key = "alerts"     -> "logs/alerts"

\* this._activeListeners.set(key, unsubscribe)
MapSet(map, key, value) ==
    [k \in DOMAIN map \cup {key} |-> IF k = key THEN value ELSE map[k]]

\* subscribeToReadings, subscribeToNode, subscribeToThresholds and
\* subscribeToAlerts: handler is what onValue returns, and the handle that
\* is filed and returned is () => off(dbRef, 'value', handler)
Subscribe(key) ==
    /\ Len(subscriptions) < MaxSubs
    /\ LET i       == Len(subscriptions) + 1
           dbRef   == PathOf(key)
           handler == Unsubscribe(i)
       IN /\ listeners' = onValue(listeners, dbRef, SnapshotCallback(i))
          /\ subscriptions' = Append(subscriptions, [dbRef |-> dbRef, handler |-> handler])
          /\ activeListeners' = MapSet(activeListeners, key, i)
    /\ invoked' = {}
    /\ lastEvent' = "subscribe"
    /\ UNCHANGED <<revoked, hookVars, exportVars, desktopVars>>

\* the body of the unsubscribe handle of the i-th subscribe call
RunHandle(regs, i) == off(regs, subscriptions[i].dbRef, subscriptions[i].handler)

\* a consumer calls the handle it was given
CallHandle(i) ==
    /\ i \in 1..Len(subscriptions)
    /\ listeners' = RunHandle(listeners, i)
    /\ revoked' = revoked \cup {i}
    /\ invoked' = {}
    /\ lastEvent' = "unsubscribe"
    /\ UNCHANGED <<subscriptions, activeListeners, hookVars, exportVars,
            desktopVars>>

RECURSIVE RunHandles(_, _)
RunHandles(regs, handles) ==
    IF handles = {} THEN regs
    ELSE LET i == CHOOSE h \in handles : TRUE
         IN RunHandles(RunHandle(regs, i), handles \ {i})

\* for each entry of the Map: call the handle, delete the entry
unsubscribeAll ==
    /\ LET filed == {activeListeners[k] : k \in DOMAIN activeListeners}
       IN /\ listeners' = RunHandles(listeners, filed)
          /\ revoked' = revoked \cup filed
    /\ activeListeners' = <<>>
    /\ invoked' = {}
    /\ lastEvent' = "unsubscribeAll"
    /\ UNCHANGED <<subscriptions, hookVars, exportVars, desktopVars>>

\* the store emits a value event at a path: every callback registered
\* there is invoked
Deliver(path) ==
    /\ invoked' = {i \in 1..Len(subscriptions) :
                      [path |-> path, callback |-> SnapshotCallback(i)] \in listeners}
    /\ lastEvent' = "deliver"
    /\ UNCHANGED <<subscriptions, listeners, activeListeners, revoked,
                   hookVars, exportVars, desktopVars>>

NextService ==
    \/ \E key \in StreamKeys : Subscribe(key)
    \/ \E i \in 1..MaxSubs : CallHandle(i)
    \/ unsubscribeAll
    \/ \E key \in StreamKeys : Deliver(PathOf(key))

SpecService == InitStreams /\ [][NextService]_vars

-----------------------------------------------------------------------------
(* AlertLogPanel: the alert list exported as CSV                           *)
(*                                                                         *)
(* A text is the sequence of its characters.  The strings held by alert    *)
(* records are drawn from a small vocabulary; Text gives their characters. *)

MaxAlerts == 2         \* records in the alert log: "a1" .. "a<MaxAlerts>"

Text(str) ==
    CASE str = ""          -> <<>>
      [] str = "a1"        -> <<"a", "1">>
      [] str = "a2"        -> <<"a", "2">>
      [] str = "a3"        -> <<"a", "3">>
      [] str = "n1"        -> <<"n", "1">>
      [] str = "n2"        -> <<"n", "2">>
      [] str = "n,1"       -> <<"n", ",", "1">>
      [] str = "humidity"  -> <<"h", "u", "m", "i", "d", "i", "t", "y">>
      [] str = "hot"       -> <<"h", "o", "t">>
      [] str = "a,b"       -> <<"a", ",", "b">>
      [] str = "say \"hi\"" -> <<"s", "a", "y", " ", "\"", "h", "i", "\"">>

Digit(d) == <<"0", "1", "2", "3", "4", "5", "6", "7", "8", "9">>[d + 1]

\* String(n) of a natural number
RECURSIVE NumberToString(_)
NumberToString(n) ==
    IF n < 10 THEN <<Digit(n)>>
    ELSE Append(NumberToString(n \div 10), Digit(n % 10))

Pad2(n) == <<Digit(n \div 10), Digit(n % 10)>>

Pad3(n) == <<Digit(n \div 100)>> \o Pad2(n % 100)

MsPerDay == 86400000

\* new Date(ms).toISOString() for an instant of 1 January 1970
ToISOString(ms) ==
    LET inDay == ms % MsPerDay
    IN <<"1", "9", "7", "0", "-", "0", "1", "-", "0", "1", "T">>
       \o Pad2(inDay \div 3600000) \o <<":">>
       \o Pad2((inDay % 3600000) \div 60000) \o <<":">>
       \o Pad2((inDay % 60000) \div 1000) \o <<".">>
       \o Pad3(inDay % 1000) \o <<"Z">>

\* str.replace(/"/g, '""')
RECURSIVE DoubleQuotes(_)
DoubleQuotes(text) ==
    IF Len(text) = 0 THEN <<>>
    ELSE (IF Head(text) = "\"" THEN <<"\"", "\"">> ELSE <<Head(text)>>)
         \o DoubleQuotes(Tail(text))

\* array.join(sep)
RECURSIVE Join(_, _)
Join(texts, sep) ==
    IF Len(texts) = 0 THEN <<>>
    ELSE IF Len(texts) = 1 THEN texts[1]
    ELSE texts[1] \o sep \o Join(Tail(texts), sep)

\* a.key ?? '' for a string field and for a number field
StringOrEmpty(a, key) == IF Has(a, key) THEN Text(a[key]) ELSE <<>>

NumberOrEmpty(a, key) == IF Has(a, key) THEN NumberToString(a[key]) ELSE <<>>

CsvHeader ==
    <<"I", "D", ",", "N", "o", "d", "e", ",", "T", "y", "p", "e", ",",
      "V", "a", "l", "u", "e", ",",
      "T", "h", "r", "e", "s", "h", "o", "l", "d", ",",
      "T", "i", "m", "e", "s", "t", "a", "m", "p", ",",
      "M", "e", "s", "s", "a", "g", "e", "\n">>

\* one element of alerts.map(...): the seven cells joined by commas; only
\* the message is quoted
CsvRow(a) ==
    Join(<<StringOrEmpty(a, "id"),
           StringOrEmpty(a, "nodeId"),
           StringOrEmpty(a, "type"),
           NumberOrEmpty(a, "value"),
           NumberOrEmpty(a, "threshold"),
           IF OrZero(a, "timestamp") # 0 THEN ToISOString(a.timestamp) ELSE <<>>,
           <<"\"">> \o DoubleQuotes(StringOrEmpty(a, "message")) \o <<"\"">>
         >>, <<",">>)

alertsToCsv(list) ==
    CsvHeader \o Join([i \in 1..Len(list) |-> CsvRow(list[i])], <<"\n">>)

AlertIds == {AlertKeys[i] : i \in 1..MaxAlerts}

\* the record with the fields that are given
AlertOf(id, node, ts, msg) ==
    LET given == [id |-> id, nodeId |-> node, timestamp |-> ts, message |-> msg]
        fixed == [type |-> "humidity", value |-> 71, threshold |-> 60]
    IN [k \in DOMAIN fixed \cup {x \in DOMAIN given : given[x] # Null} |->
           IF k \in DOMAIN fixed THEN fixed[k] ELSE given[k].value]

\* the record under test: it may carry a field named id, its nodeId may hold
\* a comma, its timestamp and its message may be missing, and the message
\* may hold quotes or a comma
ProbeAlerts ==
    {AlertOf(id, node, ts, msg) :
        id   \in Opt({"a2"}),
        node \in {Some("n1"), Some("n,1")},
        ts   \in Opt({Epoch, Epoch + 2}),
        msg  \in Opt({"say \"hi\"", "a,b"})}

CompanionAlerts ==
    {AlertOf(Null, Some("n2"), Some(Epoch + 1), Some("hot")),
     AlertOf(Null, Some("n2"), Null, Null)}

AlertChoices(k) == IF k = "a1" THEN ProbeAlerts ELSE CompanionAlerts

\* values of snapshot.val() at the alerts path
RawAlertLogs ==
    {Null} \cup
    UNION {{raw \in [S -> ProbeAlerts \cup CompanionAlerts] :
               \A k \in S : raw[k] \in AlertChoices(k)} : S \in SUBSET AlertIds}

InitExport ==
    /\ mounted = FALSE
    /\ platformOS = "web"
    /\ now = Epoch + 2
    /\ readings = EmptyObject
    /\ thresholds = DEFAULT_THRESHOLDS
    /\ alerts = <<>>
    /\ warehouseStatus = Null
    /\ lastSync = Null
    /\ isConnected = FALSE
    /\ amberAlertActive = FALSE
    /\ prevOverall = "null"
    /\ alarmLog = <<>>
    /\ lastEvent = "render"
    /\ ServiceConstructed
    /\ DesktopConstructed
    /\ alertLog \in RawAlertLogs
    /\ csv = <<>>

\* the store delivers its alert log
DeliverAlertLog == OnAlerts(alertLog)

\* handleExportCsv with the filter 'All': the text handed to the file dialog
ExportCsv ==
    /\ mounted
    /\ csv' = alertsToCsv(alerts)
    /\ lastEvent' = "export"
    /\ UNCHANGED <<alertLog, hookVars, serviceVars, desktopVars>>

NextExport ==
    \/ Mount
    \/ DeliverAlertLog
    \/ ExportCsv

SpecExport == InitExport /\ [][NextExport]_vars

-----------------------------------------------------------------------------
(* The alert log in the store and the operations of the core around it *)

\* what a caller hands to pushAlert: the documented fields, with or without
\* a message; a timestamp of the caller's is replaced by the server's
PushPayloads ==
    {AlertOf(Null, Some("n1"), Null, Null),
     AlertOf(Null, Some("n2"), Some(Epoch - 1), Some("hot"))}

\* the key push() assigns: keys are handed out in order and never reused
FreshKey(log) == AlertKeys[Cardinality(DOMAIN log) + 1]

\* mutant: the record is written with set() under a fixed key
pushAlert_set(alertPayload) ==
    /\ Cardinality(DOMAIN alertLog) < MaxAlerts
    /\ alertLog' = MapSet(alertLog, AlertKeys[1],
                          Spread(alertPayload, [timestamp |-> now]))
    /\ lastEvent' = "pushAlert"
    /\ UNCHANGED <<csv, hookVars, serviceVars, desktopVars>>

\* push(dbRef, { ...alertPayload, timestamp: serverTimestamp() })
pushAlert(alertPayload) ==
    /\ Cardinality(DOMAIN alertLog) < MaxAlerts
    /\ alertLog' = MapSet(alertLog, FreshKey(alertLog),
                          Spread(alertPayload, [timestamp |-> now]))
    /\ lastEvent' = "pushAlert"
    /\ UNCHANGED <<csv, hookVars, serviceVars, desktopVars>>

\* the hook's operations next to the log: the first render, a recomputation
\* that raises the alarm, its dismissal, the subscription to the log, its
\* delivery and its revocation
NextLog ==
    \/ Mount
    \/ OnReadings([k \in {"n1"} |-> SampleHot(now)])
    \/ dismissAmberAlert
    \/ (Len(subscriptions) = 0 /\ Subscribe("alerts"))
    \/ CallHandle(1)
    \/ unsubscribeAll
    \/ OnAlerts(alertLog)
    \/ \E alertPayload \in PushPayloads : pushAlert(alertPayload)

SpecLog == InitStreams /\ [][NextLog]_vars

-----------------------------------------------------------------------------
(* The desktop useLiveWarehouse.  It keeps the same state as the mobile    *)
(* hook without the alarm; a handler and the aggregation effect it causes  *)
(* are one step.  These definitions change the hook's state only.          *)

\* first render: the aggregation effect runs on the initial state
DesktopMountRender ==
    /\ ~desktop.mounted
    /\ desktop' = [desktop EXCEPT
                     !.mounted = TRUE,
                     !.warehouseStatus =
                         getWarehouseStatus(desktop.readings, desktop.thresholds, now)]

\* the readings handler of subscribeToReadings and the hook's callback
DesktopReadingsCallback(val) ==
    /\ desktop.mounted
    /\ LET data == IF val = Null THEN EmptyObject ELSE val
       IN desktop' = [desktop EXCEPT
                        !.readings = data,
                        !.lastSync = Some(now),
                        !.isConnected = TRUE,
                        !.warehouseStatus =
                            getWarehouseStatus(data, desktop.thresholds, now)]

\* mutant: the aggregation effect depends on the readings only
DesktopThresholdsCallback_noEffect(val) ==
    /\ desktop.mounted
    /\ LET data == IF val = Null THEN DEFAULT_THRESHOLDS ELSE val
           merged == Spread(DEFAULT_THRESHOLDS, data)
       IN desktop' = [desktop EXCEPT !.thresholds = merged]

\* the thresholds handler of subscribeToThresholds; setThresholds is the
\* callback
DesktopThresholdsCallback(val) ==
    /\ desktop.mounted
    /\ LET data == IF val = Null THEN DEFAULT_THRESHOLDS ELSE val
           merged == Spread(DEFAULT_THRESHOLDS, data)
       IN desktop' = [desktop EXCEPT
                        !.thresholds = merged,
                        !.warehouseStatus =
                            getWarehouseStatus(desktop.readings, merged, now)]

\* the alerts handler of subscribeToAlerts; setAlerts is the callback
DesktopAlertsCallback(val) ==
    /\ desktop.mounted
    /\ LET raw == IF val = Null THEN EmptyObject ELSE val
       IN desktop' = [desktop EXCEPT !.alerts = ProjectAlerts(raw)]

-----------------------------------------------------------------------------
(* ThresholdScreen of the desktop application.  It reads the thresholds   *)
(* of its own useLiveWarehouse, keeps a draft the manager edits, and      *)
(* writes the draft to the thresholds path of the store.  A write is in   *)
(* flight from the call of set() until its promise settles; the store     *)
(* notifies the listeners of a value it has taken before it acknowledges  *)
(* the write.                                                             *)

\* timers of setTimeout(() => setSaved(false), 3000) that may be armed at once
MaxTimers == 2

\* the fields the manager edits
FieldNames == {"max_humidity", "min_battery"}

\* e.target.value: a numeric text, given by its number, or a text that
\* parseFloat reads as NaN
TypedValues == {Some(55), Null}

\* parseFloat(value) || 0
ParseFloatOrZero(value) == IF value = Null THEN 0 ELSE value.value

\* setError's message
SaveFailedMessage == Some("Failed to save. Check your Firebase permissions.")

\* isDirty of the render with this draft and these thresholds
isDirty(draft, th) ==
    \/ draft.max_humidity # th.max_humidity
    \/ draft.max_temperature # th.max_temperature
    \/ draft.min_battery # th.min_battery

\* mutant: the effect leaves a draft alone while a save is in flight
SyncDraft_keepWhileSaving(scr, th) ==
    IF scr.saving THEN scr ELSE [scr EXCEPT !.draft = th]

\* the effect on [thresholds]: if (thresholds) setDraft(thresholds); the
\* hook's thresholds are always an object
SyncDraft(scr, th) == [scr EXCEPT !.draft = th]

\* the first render of ThresholdScreen and of its hook
ScreenMount ==
    /\ DesktopMountRender
    /\ screen' = SyncDraft(screen, desktop.thresholds)
    /\ lastEvent' = "mount"
    /\ UNCHANGED <<storeThresholds, hookVars, serviceVars, exportVars>>

\* a readings delivery to the screen's hook
ScreenReadings(val) ==
    /\ DesktopReadingsCallback(val)
    /\ lastEvent' = "readings"
    /\ UNCHANGED <<storeThresholds, screen, hookVars, serviceVars, exportVars>>

\* the store notifies the screen's hook of the value at the thresholds
\* path; the render that follows runs the effect on [thresholds]
DeliverThresholds(val, scr) ==
    /\ DesktopThresholdsCallback(val)
    /\ screen' = SyncDraft(scr, Spread(DEFAULT_THRESHOLDS,
                                       IF val = Null THEN DEFAULT_THRESHOLDS ELSE val))

\* another client writes the thresholds path
RemoteWrite(val) ==
    /\ storeThresholds' = val
    /\ DeliverThresholds(val, screen)
    /\ lastEvent' = "thresholds"
    /\ UNCHANGED <<hookVars, serviceVars, exportVars>>

handleChange(name, value) ==
    /\ desktop.mounted
    /\ screen' = [screen EXCEPT
                    !.draft = Spread(screen.draft,
                                     [k \in {name} |-> ParseFloatOrZero(value)]),
                    !.saved = FALSE,
                    !.error = Null]
    /\ lastEvent' = "change"
    /\ UNCHANGED <<storeThresholds, desktop, hookVars, serviceVars, exportVars>>

\* handleSave up to the await: the Save button is disabled while saving or
\* while the draft is not dirty
handleSave ==
    /\ desktop.mounted
    /\ ~screen.saving
    /\ isDirty(screen.draft, desktop.thresholds)
    /\ screen.timers < MaxTimers
    /\ screen' = [screen EXCEPT
                    !.saving = TRUE,
                    !.error = Null,
                    !.inFlight = [payload |-> screen.draft, applied |-> FALSE]]
    /\ lastEvent' = "save"
    /\ UNCHANGED <<storeThresholds, desktop, hookVars, serviceVars, exportVars>>

\* the store takes the write in flight and notifies the listeners
StoreApplies ==
    /\ screen.inFlight # Null
    /\ ~screen.inFlight.applied
    /\ storeThresholds' = screen.inFlight.payload
    /\ DeliverThresholds(screen.inFlight.payload,
                         [screen EXCEPT !.inFlight.applied = TRUE])
    /\ lastEvent' = "thresholds"
    /\ UNCHANGED <<hookVars, serviceVars, exportVars>>

\* the promise of set() resolves: the rest of the try block, then finally
SaveResolves ==
    /\ screen.inFlight # Null
    /\ screen.inFlight.applied
    /\ screen' = [screen EXCEPT
                    !.saved = TRUE,
                    !.saving = FALSE,
                    !.inFlight = Null,
                    !.timers = @ + 1]
    /\ lastEvent' = "saveOk"
    /\ UNCHANGED <<storeThresholds, desktop, hookVars, serviceVars, exportVars>>

\* getDatabase, ref or set throws, or the promise of set() rejects: the
\* catch block, then finally
SaveRejects ==
    /\ screen.inFlight # Null
    /\ ~screen.inFlight.applied
    /\ screen' = [screen EXCEPT
                    !.error = SaveFailedMessage,
                    !.saving = FALSE,
                    !.inFlight = Null]
    /\ lastEvent' = "saveFailed"
    /\ UNCHANGED <<storeThresholds, desktop, hookVars, serviceVars, exportVars>>

\* a timer armed by a save that succeeded fires
SavedTimeout ==
    /\ screen.timers > 0
    /\ screen' = [screen EXCEPT !.saved = FALSE, !.timers = @ - 1]
    /\ lastEvent' = "timeout"
    /\ UNCHANGED <<storeThresholds, desktop, hookVars, serviceVars, exportVars>>

NextScreen ==
    \/ ScreenMount
    \/ ScreenReadings([k \in {"n1"} |-> SampleMid(now)])
    \/ \E val \in RemoteThresholds : RemoteWrite(val)
    \/ \E name \in FieldNames, value \in TypedValues : handleChange(name, value)
    \/ handleSave
    \/ StoreApplies
    \/ SaveResolves
    \/ SaveRejects
    \/ SavedTimeout

SpecScreen == InitStreams /\ [][NextScreen]_vars

-----------------------------------------------------------------------------
(* The mobile and the desktop application on the same store.  A delivery  *)
(* reaches both hooks; the two run their handlers on the same value at    *)
(* the same time of the clock.                                            *)

\* values of snapshot.val() at the readings path: nothing, one unit, two
\* units of which one carries fields named nodeId and status of its own
AppsReadings(t) ==
    {Null,
     [k \in {"n1"} |-> SampleMid(t)],
     [k \in {"n1", "n2"} |->
          IF k = "n1" THEN Spread(SampleOk(t), [nodeId |-> "n2", status |-> "Critical"])
                      ELSE SampleHot(t)]}

AppsMount ==
    /\ MountRender
    /\ DesktopMountRender
    /\ UNCHANGED <<storeThresholds, screen, serviceVars, exportVars>>

AppsOnReadings(val) ==
    /\ ReadingsCallback(val)
    /\ DesktopReadingsCallback(val)
    /\ UNCHANGED <<storeThresholds, screen, serviceVars, exportVars>>

AppsOnThresholds(val) ==
    /\ ThresholdsCallback(val)
    /\ DesktopThresholdsCallback(val)
    /\ UNCHANGED <<storeThresholds, screen, serviceVars, exportVars>>

AppsOnAlerts(val) ==
    /\ AlertsCallback(val)
    /\ DesktopAlertsCallback(val)
    /\ UNCHANGED <<storeThresholds, screen, serviceVars, exportVars>>

\* the transport fails: a subscription drops and deliveries stop.  The
\* service passes onValue no cancel callback and the hooks watch no
\* connection state, so no handler of either application runs.
TransportDrops ==
    /\ mounted
    /\ lastEvent' = "transportDrop"
    /\ UNCHANGED <<hookVars, serviceVars, exportVars, desktopVars>>

NextApps ==
    \/ AppsMount
    \/ \E val \in AppsReadings(now) : AppsOnReadings(val)
    \/ \E val \in RemoteThresholds : AppsOnThresholds(val)
    \/ \E val \in StreamAlertLogs : AppsOnAlerts(val)
    \/ dismissAmberAlert
    \/ TransportDrops

SpecApps == InitStreams /\ [][NextApps]_vars

-----------------------------------------------------------------------------
(* The pure functions on their own: inputs drawn at Init, one call *)

\* the object with the fields that are given
NodeOf(h, te, b, ts) ==
    LET given == [hum |-> h, temp |-> te, battery |-> b, timestamp |-> ts]
    IN [k \in {x \in DOMAIN given : given[x] # Null} |-> given[k].value]

\* readings of the unit under test: every field may be missing; values sit
\* on both sides of the ceilings (60, 30), of the 10% margins (66, 33), of
\* the battery floor (20) and of the silence timeout
ProbeNodes ==
    {Null} \cup
    {NodeOf(h, te, b, ts) :
        h  \in Opt({60, 66, 67}),
        te \in Opt({30, 33, 34}),
        b  \in Opt({19, 20}),
        ts \in Opt({0, Epoch - STALE_THRESHOLD_MS, Epoch + 1})}

CompanionNodes == {SampleOk(Epoch), SampleHot(Epoch), SampleOld(Epoch)}

NodeChoices(k) == IF k = "n1" THEN ProbeNodes ELSE CompanionNodes

PureReadings ==
    UNION {{rd \in [S -> ProbeNodes \cup CompanionNodes] :
               \A k \in S : rd[k] \in NodeChoices(k)} : S \in SUBSET NodeIds}

PureThresholds ==
    {DEFAULT_THRESHOLDS,
     [max_humidity |-> 55, max_temperature |-> 25, min_battery |-> 60],
     [max_humidity |-> 55]}

PureNows == {Epoch, Epoch + 1}

InitPure ==
    /\ mounted = FALSE
    /\ platformOS = "ios"
    /\ now \in PureNows
    /\ readings \in PureReadings
    /\ thresholds \in PureThresholds
    /\ alerts = <<>>
    /\ warehouseStatus = Null
    /\ lastSync = Null
    /\ isConnected = FALSE
    /\ amberAlertActive = FALSE
    /\ prevOverall = "null"
    /\ alarmLog = <<>>
    /\ lastEvent = "render"
    /\ ServiceConstructed
    /\ DesktopConstructed
    /\ NothingExported

\* setStatus(getWarehouseStatus(readings, thresholds))
Aggregate ==
    /\ warehouseStatus = Null
    /\ warehouseStatus' = getWarehouseStatus(readings, thresholds, now)
    /\ lastEvent' = "aggregate"
    /\ UNCHANGED <<serviceVars, exportVars, desktopVars>>
    /\ UNCHANGED <<mounted, platformOS, now, readings, thresholds, alerts,
                   lastSync, isConnected, amberAlertActive, prevOverall, alarmLog>>

NextPure == Aggregate

SpecPure == InitPure /\ [][NextPure]_vars

-----------------------------------------------------------------------------
(* Properties of the alarm (specification Spec) *)

\* a step in which the aggregation effect runs
RecomputeStep ==
    \/ Mount
    \/ \E val \in LiveReadings(now) : OnReadings(val)
    \/ \E val \in RemoteThresholds : OnThresholds(val)

\* the published snapshot (the one of the latest recomputation) is Critical
IsCritical == warehouseStatus # Null /\ warehouseStatus.overallStatus = "Critical"

\* this step publishes a Critical snapshot after one that was not Critical
EntersCritical == warehouseStatus'.overallStatus = "Critical" /\ ~IsCritical

Newest(log) == log[Len(log)]

Activations(log) == Cardinality({i \in 1..Len(log) : log[i].activated})

Haptics(log) == Cardinality({i \in 1..Len(log) : log[i].haptic})

CriticalPattern(log) == [i \in 1..Len(log) |-> log[i].critical]

\* the overall statuses Optimal, Critical, Critical, Optimal, Critical
EntryExitEntry == <<FALSE, TRUE, TRUE, FALSE, TRUE>>

\* C1 as stated: at every recomputation the alarm is activated, that is
\* amberAlertActive is set true and the haptic is fired, exactly when the
\* new overallStatus is Critical and the previous one was not; the sequence
\* Optimal, Critical, Critical, Optimal, Critical gives 2 activations.
C1_EveryEntryFiresHaptic ==
    /\ [][RecomputeStep =>
            ((Newest(alarmLog').activated /\ Newest(alarmLog').haptic) <=> EntersCritical)]_vars
    /\ [](CriticalPattern(alarmLog) = EntryExitEntry =>
            Activations(alarmLog) = 2 /\ Haptics(alarmLog) = 2)

\* C1 amended: at every recomputation amberAlertActive is set true exactly
\* when the new overallStatus is Critical and the previous one was not, and
\* the haptic is fired exactly at those recomputations on a build whose
\* Platform.OS is not web (never on web); consecutive Critical snapshots do
\* not activate again, so Optimal, Critical, Critical, Optimal, Critical
\* gives exactly 2 activations.
C1_EdgeTriggered ==
    /\ [][RecomputeStep =>
            /\ Newest(alarmLog').activated <=> EntersCritical
            /\ Newest(alarmLog').activated => amberAlertActive'
            /\ Newest(alarmLog').haptic <=> (EntersCritical /\ platformOS # "web")]_vars
    /\ [](/\ \A i \in 2..Len(alarmLog) :
                alarmLog[i].activated <=>
                    (alarmLog[i].critical /\ ~alarmLog[i - 1].critical)
          /\ CriticalPattern(alarmLog) = EntryExitEntry =>
                /\ Activations(alarmLog) = 2
                /\ Haptics(alarmLog) = IF platformOS = "web" THEN 0 ELSE 2)

\* the last five recomputations were not Critical, Critical, Critical, not
\* Critical, Critical, and the alarm was raised at the second and the fifth
C1_Witness ==
    /\ CriticalPattern(alarmLog) = EntryExitEntry
    /\ alarmLog[2].activated /\ ~alarmLog[3].activated /\ alarmLog[5].activated
    /\ IsCritical
    /\ amberAlertActive

\* C2 as stated: after any recomputation whose snapshot is not Critical the
\* alarm is not active, whether or not the consumer acknowledged it.
C2_QuiescentWhenNotCritical ==
    (warehouseStatus # Null /\ warehouseStatus.overallStatus # "Critical")
        => ~amberAlertActive

\* C3: once acknowledged while the fleet is Critical, the alarm stays
\* inactive at every recomputation that keeps overallStatus Critical, and
\* it is active again after the first recomputation that enters Critical
\* from a snapshot that was not Critical.
C3_AckHoldsUntilNextEntry ==
    [][RecomputeStep =>
         /\ (IsCritical /\ ~amberAlertActive
                /\ warehouseStatus'.overallStatus = "Critical") => ~amberAlertActive'
         /\ EntersCritical => amberAlertActive']_vars

\* a delivery was processed after the acknowledgment: the fleet stayed
\* Critical and the alarm stayed inactive
C3_Witness ==
    /\ lastEvent \in {"readings", "thresholds"}
    /\ IsCritical
    /\ ~amberAlertActive
    /\ Len(alarmLog) >= 2
    /\ alarmLog[Len(alarmLog) - 1].critical
    /\ ~Newest(alarmLog).activated

\* C4: dismissAmberAlert changes nothing but the alarm's visibility flag:
\* warehouseStatus, readings, thresholds, alerts, lastSync, isConnected and
\* the remembered previous overall status keep their values.
C4_DismissFrame ==
    [][lastEvent' = "dismiss" =>
         UNCHANGED <<warehouseStatus, readings, thresholds, alerts, lastSync,
                     isConnected, prevOverall>>]_vars

\* the alarm was acknowledged while the fleet was Critical
C4_Witness ==
    /\ lastEvent = "dismiss"
    /\ ~amberAlertActive
    /\ IsCritical
    /\ prevOverall = "Critical"
    /\ Newest(alarmLog).critical

-----------------------------------------------------------------------------
(* Properties of getNodeStatus and getWarehouseStatus (specification       *)
(* SpecPure): warehouseStatus is the snapshot returned for readings,       *)
(* thresholds and now                                                      *)

Computed == warehouseStatus # Null

Units == DOMAIN readings

StatusOf(k) == warehouseStatus.enrichedNodes[k].status

OnlineUnits == {k \in Units : StatusOf(k) # "Offline"}

\* the reading is absent, has no timestamp, or is older than 120 s
Silent(node) ==
    \/ node = Null
    \/ "timestamp" \notin DOMAIN node
    \/ now - node.timestamp > 120000

\* the reading has a timestamp that is at most 120 s old
Fresh(node) ==
    /\ node # Null
    /\ "timestamp" \in DOMAIN node
    /\ now - node.timestamp <= 120000

\* node.field > limit * factor / 10, false when the field is missing
Exceeds(node, field, limit, factor) ==
    field \in DOMAIN node /\ 10 * node[field] > factor * limit

CompleteThresholds ==
    {"max_humidity", "max_temperature", "min_battery"} \subseteq DOMAIN thresholds

\* C5: a reading that is absent, has no timestamp or is older than 120000 ms
\* is classified Offline, whatever its hum, temp and battery and whatever
\* the thresholds.
C5_StalenessFirst ==
    Computed =>
        \A k \in Units :
            Silent(readings[k]) =>
                /\ StatusOf(k) = "Offline"
                /\ getNodeStatus(readings[k], thresholds, now) = "Offline"

\* a unit silent for 120001 ms whose humidity is more than 10% above the
\* ceiling is Offline, not Critical
C5_Witness ==
    /\ Computed
    /\ "n1" \in Units
    /\ readings["n1"] # Null
    /\ "timestamp" \in DOMAIN readings["n1"]
    /\ now - readings["n1"].timestamp = 120001
    /\ Exceeds(readings["n1"], "hum", thresholds.max_humidity, 11)
    /\ StatusOf("n1") = "Offline"

\* what C6 expects of a fresh reading
ExpectedFreshStatus(node) ==
    IF Exceeds(node, "hum", thresholds.max_humidity, 11)
       \/ Exceeds(node, "temp", thresholds.max_temperature, 11) THEN "Critical"
    ELSE IF Exceeds(node, "hum", thresholds.max_humidity, 10)
            \/ Exceeds(node, "temp", thresholds.max_temperature, 10) THEN "At Risk"
    ELSE "Optimal"

\* C6: a fresh reading (timestamp present, at most 120000 ms old, exactly
\* 120000 included) is Critical if hum or temp is above 1.1 times its
\* ceiling, else At Risk if hum or temp is above its ceiling, else Optimal,
\* and never Offline.
C6_FreshClassification ==
    (Computed /\ CompleteThresholds) =>
        \A k \in Units :
            Fresh(readings[k]) =>
                /\ StatusOf(k) = ExpectedFreshStatus(readings[k])
                /\ StatusOf(k) # "Offline"

\* a reading exactly 120000 ms old, above the humidity ceiling by no more
\* than 10%, is At Risk
C6_Witness ==
    /\ Computed
    /\ CompleteThresholds
    /\ "n1" \in Units
    /\ Fresh(readings["n1"])
    /\ now - readings["n1"].timestamp = 120000
    /\ "hum" \in DOMAIN readings["n1"]
    /\ readings["n1"].hum = 66
    /\ thresholds.max_humidity = 60
    /\ StatusOf("n1") = "At Risk"

BatteryVariants == Opt({5, 95})

MinBatteryVariants == Opt({20, 60})

\* the object with one field set, or removed when the value is Null
WithField(obj, key, v) ==
    IF obj = Null THEN Null
    ELSE [k \in (DOMAIN obj \ {key}) \cup (IF v = Null THEN {} ELSE {key}) |->
             IF k = key THEN v.value ELSE obj[k]]

SameButBattery(a, b) ==
    /\ a.overallStatus = b.overallStatus
    /\ a.averageTemp = b.averageTemp
    /\ a.averageHum = b.averageHum
    /\ a.totalNodes = b.totalNodes
    /\ a.onlineNodes = b.onlineNodes
    /\ a.offlineNodes = b.offlineNodes
    /\ a.atRiskNodesCount = b.atRiskNodesCount
    /\ a.criticalNodesCount = b.criticalNodesCount
    /\ DOMAIN a.enrichedNodes = DOMAIN b.enrichedNodes
    /\ \A k \in DOMAIN a.enrichedNodes :
           /\ a.enrichedNodes[k].status = b.enrichedNodes[k].status
           /\ a.enrichedNodes[k].isOnline = b.enrichedNodes[k].isOnline

\* C7: readings that differ only in battery values and thresholds that
\* differ only in min_battery give the same status for every unit and the
\* same overallStatus, counts and averages.
C7_BatteryIndependence ==
    Computed =>
        \A bs \in [Units -> BatteryVariants], mb \in MinBatteryVariants :
            SameButBattery(
                warehouseStatus,
                getWarehouseStatus(
                    [k \in Units |-> WithField(readings[k], "battery", bs[k])],
                    WithField(thresholds, "min_battery", mb),
                    now))

\* a unit whose battery is below the floor is listed as low on battery and
\* is Optimal, and so is the fleet
C7_Witness ==
    /\ Computed
    /\ warehouseStatus.overallStatus = "Optimal"
    /\ warehouseStatus.lowBatteryNodes = <<"n1">>
    /\ StatusOf("n1") = "Optimal"
    /\ readings["n1"].battery = 19

UnitsWith(status) == {k \in Units : StatusOf(k) = status}

\* C8: overallStatus is Critical iff some unit is Critical, At Risk iff no
\* unit is Critical and some unit is At Risk, No Data iff no unit is online
\* (no units at all, or all of them Offline), and Optimal otherwise.
C8_OverallPrecedence ==
    Computed =>
        LET overall == warehouseStatus.overallStatus
        IN /\ overall = "Critical" <=> UnitsWith("Critical") # {}
           /\ overall = "At Risk" <=>
                  (UnitsWith("Critical") = {} /\ UnitsWith("At Risk") # {})
           /\ overall = "No Data" <=> OnlineUnits = {}
           /\ overall = "Optimal" <=>
                  (OnlineUnits # {} /\ UnitsWith("Critical") = {}
                   /\ UnitsWith("At Risk") = {})

\* one Critical unit in a fleet whose other units are Optimal: the fleet
\* is Critical
C8_Witness ==
    /\ Computed
    /\ Cardinality(UnitsWith("Critical")) = 1
    /\ UnitsWith("Optimal") # {}
    /\ UnitsWith("Critical") \cup UnitsWith("Optimal") = Units
    /\ warehouseStatus.overallStatus = "Critical"

RECURSIVE SumOf(_, _)
\* the sum of a field over a set of units, a missing value counting as 0
SumOf(S, field) ==
    IF S = {} THEN 0
    ELSE LET k == CHOOSE x \in S : TRUE
         IN (IF field \in DOMAIN readings[k] THEN readings[k][field] ELSE 0)
            + SumOf(S \ {k}, field)

\* avg (in tenths) is sum / count rounded to one decimal place
IsMeanTo1Decimal(avg, sum, count) ==
    /\ 2 * (avg * count - 10 * sum) <= count
    /\ 2 * (avg * count - 10 * sum) > -count

\* C9: averageTemp and averageHum are the means over the online units only
\* (to one decimal place), and both are 0 when no unit is online.
C9_AveragesOverOnline ==
    Computed =>
        IF OnlineUnits = {}
        THEN warehouseStatus.averageTemp = 0 /\ warehouseStatus.averageHum = 0
        ELSE /\ IsMeanTo1Decimal(warehouseStatus.averageTemp,
                                 SumOf(OnlineUnits, "temp"), Cardinality(OnlineUnits))
             /\ IsMeanTo1Decimal(warehouseStatus.averageHum,
                                 SumOf(OnlineUnits, "hum"), Cardinality(OnlineUnits))

\* an Offline unit reporting 90% and 40 degrees next to an online unit: the
\* averages are the online unit's values
C9_Witness ==
    /\ Computed
    /\ Units = {"n1", "n2"}
    /\ readings["n2"] = SampleOld(Epoch)
    /\ StatusOf("n2") = "Offline"
    /\ StatusOf("n1") = "Critical"
    /\ {"hum", "temp"} \subseteq DOMAIN readings["n1"]
    /\ readings["n1"].hum = 67 /\ readings["n1"].temp = 34
    /\ warehouseStatus.averageHum = 670
    /\ warehouseStatus.averageTemp = 340

Elements(seq) == {seq[i] : i \in 1..Len(seq)}

\* C10: lowBatteryNodes lists, once each, exactly the units that are online
\* and have a battery value strictly below thresholds.min_battery; an
\* Offline unit is never listed.
C10_LowBatteryList ==
    (Computed /\ "min_battery" \in DOMAIN thresholds) =>
        LET listed == warehouseStatus.lowBatteryNodes
        IN /\ Elements(listed) =
                {k \in OnlineUnits : /\ "battery" \in DOMAIN readings[k]
                                     /\ readings[k].battery < thresholds.min_battery}
           /\ Len(listed) = Cardinality(Elements(listed))

\* the online unit at 19% is listed, the Offline unit at 5% is not, with
\* the floor at 20%
C10_Witness ==
    /\ Computed
    /\ "min_battery" \in DOMAIN thresholds
    /\ thresholds.min_battery = 20
    /\ Units = {"n1", "n2"}
    /\ readings["n2"] = SampleOld(Epoch)
    /\ StatusOf("n2") = "Offline"
    /\ warehouseStatus.lowBatteryNodes = <<"n1">>
    /\ readings["n1"].battery = 19

-----------------------------------------------------------------------------
(* Properties of the stream multiplexer (specification SpecStreams) *)

ReadingsDelivery(val) == OnReadings(val)

ThresholdsDelivery(val) == OnThresholds(val)

AlertsDelivery == \E val \in StreamAlertLogs : OnAlerts(val)

StreamDelivery ==
    \/ \E val \in StreamReadings(now) : ReadingsDelivery(val)
    \/ \E val \in StreamThresholds : ThresholdsDelivery(val)

\* C11: under every interleaving of deliveries on the readings stream and
\* on the thresholds stream, once a delivery has been processed the
\* published warehouseStatus is getWarehouseStatus of the latest readings
\* and the latest thresholds; a delivery on one stream leaves the latest
\* value of the other stream in place and recomputes with it, whether or
\* not the other stream has delivered anything yet.
C11_LatestOfBothStreams ==
    [][/\ StreamDelivery =>
            warehouseStatus' = getWarehouseStatus(readings', thresholds', now)
       /\ \A val \in StreamReadings(now) : ReadingsDelivery(val) =>
            /\ readings' = (IF val = Null THEN EmptyObject ELSE val)
            /\ thresholds' = thresholds
       /\ \A val \in StreamThresholds : ThresholdsDelivery(val) =>
            readings' = readings]_vars

\* thresholds were delivered after the readings, and the snapshot is the
\* one of both: 63% is Critical under the delivered ceiling of 55 only
C11_Witness ==
    /\ lastEvent = "thresholds"
    /\ "n1" \in DOMAIN readings /\ readings["n1"].hum = 63
    /\ thresholds.max_humidity = 55
    /\ IsCritical
    /\ warehouseStatus = getWarehouseStatus(readings, thresholds, now)

\* C12: a delivery on the alert-log stream updates alerts only: it does not
\* run the recomputation, it leaves warehouseStatus, readings, thresholds,
\* lastSync and isConnected as they were, and it neither activates nor
\* clears the alarm.
C12_AlertsDeliveryFrame ==
    [][AlertsDelivery =>
         UNCHANGED <<warehouseStatus, readings, thresholds, lastSync,
                     isConnected, amberAlertActive, prevOverall, alarmLog>>]_vars

\* the alert log was delivered while the alarm was active on a Critical
\* fleet, and the alarm is still active
C12_Witness ==
    /\ lastEvent = "alerts"
    /\ Len(alerts) = 2
    /\ IsCritical
    /\ amberAlertActive

ThresholdFields == {"max_humidity", "max_temperature", "min_battery"}

\* the delivered object, every field it lacks taken from the defaults
FilledFromDefaults(val) ==
    [f \in ThresholdFields |->
        IF val # Null /\ f \in DOMAIN val THEN val[f] ELSE DEFAULT_THRESHOLDS[f]]

\* C13: the active thresholds always have max_humidity, max_temperature
\* and min_battery; until the first thresholds delivery they are the
\* defaults {60, 30, 20}; after each delivery they are the delivered object
\* with every missing field (or the wholly absent object) filled from the
\* defaults, not from the previous value; nothing else changes them.
C13_ThresholdsAlwaysComplete ==
    /\ [](ThresholdFields \subseteq DOMAIN thresholds)
    /\ [](~mounted => thresholds = DEFAULT_THRESHOLDS)
    /\ [][/\ \A val \in StreamThresholds : ThresholdsDelivery(val) =>
                thresholds' = FilledFromDefaults(val)
          /\ (~ \E val \in StreamThresholds : ThresholdsDelivery(val)) =>
                thresholds' = thresholds]_vars

\* a delivery with max_temperature only arrived after a delivery that had
\* set max_humidity to 55: max_humidity is the default again
C13_Witness ==
    /\ lastEvent = "thresholds"
    /\ thresholds = [max_humidity |-> 60, max_temperature |-> 25, min_battery |-> 20]
    /\ warehouseStatus.overallStatus = "At Risk"

-----------------------------------------------------------------------------
(* Properties of the subscriptions (specification SpecService) *)

\* the registration the i-th subscribe call made with the store
RegistrationOf(i) == [path |-> subscriptions[i].dbRef, callback |-> SnapshotCallback(i)]

\* C14 as stated: after any sequence of subscribe calls, repeated ones for
\* the same stream included, unsubscribeAll leaves no handler of the
\* instance registered with the store, and an unsubscribeAll that follows
\* another one changes nothing.
C14_UnsubscribeAllRevokesAll ==
    /\ [][unsubscribeAll => listeners' = {}]_vars
    /\ [][(unsubscribeAll /\ lastEvent = "unsubscribeAll") =>
            UNCHANGED <<listeners, activeListeners, subscriptions>>]_vars

\* C15 as stated: overlapping subscriptions are revoked independently:
\* calling the handle of one subscription removes the registration of that
\* subscription and of no other.
C15_HandleRevokesItsOwn ==
    [][\A i \in 1..MaxSubs : CallHandle(i) =>
          listeners' = listeners \ {RegistrationOf(i)}]_vars

\* C16 as stated: once the handle of a subscription has been called (by
\* the consumer or by unsubscribeAll) a delivery never invokes its callback
\* again, and calling the handle once more changes no registration.
C16_NoDeliveryAfterUnsubscribe ==
    /\ [][\A key \in StreamKeys : Deliver(PathOf(key)) =>
            invoked' \cap revoked = {}]_vars
    /\ [][\A i \in revoked : CallHandle(i) => listeners' = listeners]_vars

-----------------------------------------------------------------------------
(* Properties of the hook over time (specification SpecClock) *)

\* unit k is in the latest readings and now - timestamp > 120000
SilentNow(k) ==
    /\ k \in DOMAIN readings
    /\ Has(readings[k], "timestamp")
    /\ now - readings[k].timestamp > STALE_THRESHOLD_MS

\* the published snapshot lists unit k as Offline, not online, and counts it
ReportedOffline(k) ==
    /\ warehouseStatus # Null
    /\ warehouseStatus.offlineNodes >= 1
    /\ k \in DOMAIN warehouseStatus.enrichedNodes
    /\ warehouseStatus.enrichedNodes[k].status = "Offline"
    /\ ~warehouseStatus.enrichedNodes[k].isOnline

\* C17 as stated: whenever time has advanced so that now - timestamp exceeds
\* 120000 ms for a unit of the latest readings, the snapshot published by
\* useLiveWarehouse eventually reports that unit Offline (status Offline,
\* isOnline false, counted in offlineNodes), unless the unit reports again.
C17_SilentUnitMarkedOffline ==
    \A k \in NodeIds : SilentNow(k) ~> (ReportedOffline(k) \/ ~SilentNow(k))

-----------------------------------------------------------------------------
(* Properties of the alert list and its export (specification SpecExport) *)

\* the raw records of the log that was delivered
RawRecords == IF alertLog = Null THEN EmptyObject ELSE alertLog

\* element a of the list carries the fields of raw record r (id aside)
SamePayload(a, r) ==
    /\ DOMAIN a \ {"id"} = DOMAIN r \ {"id"}
    /\ \A f \in DOMAIN r \ {"id"} : a[f] = r[f]

\* the ways of pairing the elements of the list with the raw records, one
\* element per record
Pairings ==
    {p \in [1..Len(alerts) -> DOMAIN RawRecords] :
        /\ \A i, j \in 1..Len(alerts) : p[i] = p[j] => i = j
        /\ \A i \in 1..Len(alerts) : SamePayload(alerts[i], RawRecords[p[i]])}

\* C18: the projection returns a list with exactly one element per raw
\* record, ordered by non-increasing timestamp where a missing timestamp
\* counts as 0, so records without a timestamp come last.
C18_OnePerRecordNewestFirst ==
    lastEvent = "alerts" =>
        /\ Len(alerts) = Cardinality(DOMAIN RawRecords)
        /\ Pairings # {}
        /\ \A i, j \in 1..Len(alerts) :
              i < j => /\ SortKey(alerts[i]) >= SortKey(alerts[j])
                       /\ ~Has(alerts[i], "timestamp") => ~Has(alerts[j], "timestamp")

\* a log of two records was projected: the one without a timestamp, stored
\* under the first key, is the last element of the list
C18_Witness ==
    /\ lastEvent = "alerts"
    /\ Len(alerts) = 2
    /\ DOMAIN RawRecords = {"a1", "a2"}
    /\ ~Has(RawRecords["a1"], "timestamp")
    /\ Has(alerts[1], "timestamp")
    /\ alerts[1].timestamp = Epoch + 1
    /\ ~Has(alerts[2], "timestamp")

\* C19 as stated: for every raw record, whatever fields it contains, the id
\* of its element in the projected list is the key under which the store
\* holds the record, so the ids of the list are pairwise distinct.
C19_IdIsStoreKey ==
    lastEvent = "alerts" =>
        /\ \E p \in Pairings : \A i \in 1..Len(alerts) : alerts[i].id = p[i]
        /\ \A i, j \in 1..Len(alerts) : alerts[i].id = alerts[j].id => i = j

\* A CSV reader (RFC 4180): a comma ends a cell and a line break ends a row
\* unless they stand inside quotes, which is when an odd number of quote
\* characters precedes them; a cell written in quotes is read without
\* them, a doubled quote inside it being one quote.
QuotesBefore(text, i) == Cardinality({j \in 1..(i - 1) : text[j] = "\""})

Separators(text, c) ==
    {i \in 1..Len(text) : text[i] = c /\ QuotesBefore(text, i) % 2 = 0}

\* the k-th smallest element of a set of positions
Nth(S, k) == CHOOSE x \in S : Cardinality({y \in S : y <= x}) = k

\* the pieces of the text between the separators
Pieces(text, seps) ==
    LET n     == Cardinality(seps)
        from(k) == IF k = 1 THEN 1 ELSE Nth(seps, k - 1) + 1
        to(k)   == IF k = n + 1 THEN Len(text) ELSE Nth(seps, k) - 1
    IN [k \in 1..(n + 1) |-> SubSeq(text, from(k), to(k))]

RECURSIVE Undouble(_)
Undouble(text) ==
    IF Len(text) = 0 THEN <<>>
    ELSE IF Len(text) >= 2 /\ text[1] = "\"" /\ text[2] = "\""
         THEN <<"\"">> \o Undouble(SubSeq(text, 3, Len(text)))
    ELSE <<text[1]>> \o Undouble(Tail(text))

Unquote(cell) ==
    IF Len(cell) >= 2 /\ cell[1] = "\"" /\ cell[Len(cell)] = "\""
    THEN Undouble(SubSeq(cell, 2, Len(cell) - 1))
    ELSE cell

ReadRow(line) ==
    LET cells == Pieces(line, Separators(line, ","))
    IN [k \in 1..Len(cells) |-> Unquote(cells[k])]

\* the rows of cells a reader gets from the text; a line break at the very
\* end of the text starts no row
ReadCsv(text) ==
    LET lines == Pieces(text, Separators(text, "\n"))
        kept  == IF Len(lines[Len(lines)]) = 0
                 THEN SubSeq(lines, 1, Len(lines) - 1) ELSE lines
    IN [k \in 1..Len(kept) |-> ReadRow(kept[k])]

HeaderCells ==
    <<<<"I", "D">>, <<"N", "o", "d", "e">>, <<"T", "y", "p", "e">>,
      <<"V", "a", "l", "u", "e">>,
      <<"T", "h", "r", "e", "s", "h", "o", "l", "d">>,
      <<"T", "i", "m", "e", "s", "t", "a", "m", "p">>,
      <<"M", "e", "s", "s", "a", "g", "e">>>>

\* the cells of the row hold the values of alert a
RowPreserves(row, a) ==
    /\ Len(row) = 7
    /\ row[1] = StringOrEmpty(a, "id")
    /\ row[2] = StringOrEmpty(a, "nodeId")
    /\ row[3] = StringOrEmpty(a, "type")
    /\ row[4] = NumberOrEmpty(a, "value")
    /\ row[5] = NumberOrEmpty(a, "threshold")
    /\ Has(a, "timestamp") => row[6] = ToISOString(a.timestamp)
    /\ row[7] = StringOrEmpty(a, "message")

\* C20 as stated: the text exported from a projected alert list reads back
\* as the header ID,Node,Type,Value,Threshold,Timestamp,Message followed by
\* exactly one row per alert in list order, and the id, nodeId, type, value,
\* threshold and message cells of each row equal the values of its alert
\* (the timestamp cell is the ISO-8601 form, quotes in message are doubled
\* in the text).
C20_CsvPreservesRecords ==
    lastEvent = "export" =>
        LET table == ReadCsv(csv)
        IN /\ Len(table) = 1 + Len(alerts)
           /\ table[1] = HeaderCells
           /\ \A i \in 1..Len(alerts) : RowPreserves(table[i + 1], alerts[i])

\* what does hold: the same, for lists whose id, nodeId and type cells hold
\* no comma, quote or line break
PlainCell(text) == \A i \in 1..Len(text) : text[i] \notin {",", "\"", "\n"}

CsvPreservesPlainRecords ==
    (/\ lastEvent = "export"
     /\ \A i \in 1..Len(alerts) :
           /\ PlainCell(StringOrEmpty(alerts[i], "id"))
           /\ PlainCell(StringOrEmpty(alerts[i], "nodeId"))
           /\ PlainCell(StringOrEmpty(alerts[i], "type")))
    => LET table == ReadCsv(csv)
       IN /\ Len(table) = 1 + Len(alerts)
          /\ table[1] = HeaderCells
          /\ \A i \in 1..Len(alerts) : RowPreserves(table[i + 1], alerts[i])

-----------------------------------------------------------------------------
(* Properties of the alert log in the store (specification SpecLog) *)

PushStep == \E alertPayload \in PushPayloads : pushAlert(alertPayload)

\* C21: the alert log is append-only for the core: pushAlert adds exactly
\* one new record, holding the payload, under a key the log did not have,
\* and leaves every existing record as it was; no other operation of the
\* service or the hook (subscription, delivery, recomputation, alarm
\* activation, dismissal, unsubscribe) writes, changes or deletes a record.
C21_LogAppendOnly ==
    [][/\ \A alertPayload \in PushPayloads : pushAlert(alertPayload) =>
            /\ \E k \in DOMAIN alertLog' \ DOMAIN alertLog :
                  /\ DOMAIN alertLog' = DOMAIN alertLog \cup {k}
                  /\ \A f \in DOMAIN alertPayload \ {"timestamp"} :
                        alertLog'[k][f] = alertPayload[f]
            /\ \A j \in DOMAIN alertLog : alertLog'[j] = alertLog[j]
       /\ ~PushStep => alertLog' = alertLog]_vars

\* two records were pushed, the older one is still as it was delivered
\* before the second push, the alarm was raised and the subscription revoked
C21_Witness ==
    /\ DOMAIN alertLog = {"a1", "a2"}
    /\ Len(alerts) = 1
    /\ alerts[1] = ProjectAlert("a1", alertLog["a1"])
    /\ amberAlertActive
    /\ revoked = {1}

-----------------------------------------------------------------------------
(* C22, C30: ThresholdScreen *)

\* C22: a save that fails leaves the screen in a recoverable error state:
\* after the step in which the save fails the error holds a message,
\* saving is false, saved is false, the draft is the draft of before the
\* failure, and the live thresholds, the snapshot and the store are
\* unchanged
C22_FailedSaveRecoverable ==
    [][lastEvent' = "saveFailed" =>
         /\ screen'.error # Null
         /\ ~screen'.saving
         /\ ~screen'.saved
         /\ screen'.draft = screen.draft
         /\ desktop' = desktop
         /\ storeThresholds' = storeThresholds]_vars

\* C30: every thresholds delivery replaces the draft, whatever the edits
\* and whether or not a save is in flight: right after it the draft is the
\* delivered thresholds and isDirty is false; an edit of the draft changes
\* neither the live thresholds nor the snapshot nor the store, and the
\* live thresholds change in delivery steps only
C30_DeliveryReplacesDraft ==
    [][/\ lastEvent' = "thresholds" =>
             /\ screen'.draft = desktop'.thresholds
             /\ ~isDirty(screen'.draft, desktop'.thresholds)
       /\ lastEvent' = "change" =>
             /\ desktop' = desktop
             /\ storeThresholds' = storeThresholds
       /\ desktop'.thresholds # desktop.thresholds => lastEvent' = "thresholds"]_vars

\* a delivery from another client arrived while a save of an edited draft
\* was in flight and replaced the draft
C30_Witness ==
    /\ lastEvent = "thresholds"
    /\ screen.saving
    /\ screen.inFlight # Null
    /\ ~screen.inFlight.applied
    /\ screen.inFlight.payload # screen.draft
    /\ screen.draft = desktop.thresholds
    /\ desktop.warehouseStatus # Null

-----------------------------------------------------------------------------
(* C23, C25, C26, C27: the two hooks under the same deliveries *)

\* C23: when the transport fails both hooks keep their last-known
\* readings, thresholds and snapshot and mark connectivity as lost:
\* isConnected is false after the failure
C23_TransportFailureMarksDisconnected ==
    [][lastEvent' = "transportDrop" =>
         /\ readings' = readings
         /\ thresholds' = thresholds
         /\ warehouseStatus' = warehouseStatus
         /\ desktop'.readings = desktop.readings
         /\ desktop'.thresholds = desktop.thresholds
         /\ desktop'.warehouseStatus = desktop.warehouseStatus
         /\ ~isConnected'
         /\ ~desktop'.isConnected]_vars

\* C25: after every step of every sequence of reading, threshold and alert
\* deliveries the desktop hook exposes the same warehouseStatus, readings,
\* thresholds, alerts and isConnected as the mobile hook
C25_DesktopMirrorsMobile ==
    /\ desktop.mounted = mounted
    /\ desktop.warehouseStatus = warehouseStatus
    /\ desktop.readings = readings
    /\ desktop.thresholds = thresholds
    /\ desktop.alerts = alerts
    /\ desktop.isConnected = isConnected

\* both hooks hold a Critical snapshot of two units computed under
\* delivered thresholds, a delivered alert list, and the mobile alarm is up
C25_Witness ==
    /\ lastEvent = "thresholds"
    /\ IsCritical
    /\ warehouseStatus.totalNodes = 2
    /\ thresholds # DEFAULT_THRESHOLDS
    /\ Len(alerts) > 0
    /\ amberAlertActive
    /\ desktop.warehouseStatus = warehouseStatus
    /\ desktop.alerts = alerts
    /\ desktop.isConnected

\* C26: every snapshot is recomputed in full: the keys of enrichedNodes
\* are the keys of the readings it was computed from, so a unit removed
\* from the readings is in the snapshot no more, neither in the counts
\* nor in lowBatteryNodes, and the nodeId of every record is its key
C26_SnapshotRecomputedInFull ==
    warehouseStatus # Null =>
        /\ DOMAIN warehouseStatus.enrichedNodes = DOMAIN readings
        /\ warehouseStatus.totalNodes = Cardinality(DOMAIN readings)
        /\ \A k \in DOMAIN warehouseStatus.enrichedNodes :
               warehouseStatus.enrichedNodes[k].nodeId = k
        /\ \A i \in 1..Len(warehouseStatus.lowBatteryNodes) :
               warehouseStatus.lowBatteryNodes[i] \in DOMAIN readings

\* a delivery took the second unit away after a Critical snapshot of two
\* units, the first of which carried a nodeId of its own
C26_Witness ==
    /\ lastEvent = "readings"
    /\ DOMAIN readings = {"n1"}
    /\ thresholds = DEFAULT_THRESHOLDS
    /\ Len(alarmLog) >= 2
    /\ alarmLog[Len(alarmLog) - 1].critical
    /\ ~Newest(alarmLog).critical
    /\ warehouseStatus.totalNodes = 1
    /\ "n2" \notin DOMAIN warehouseStatus.enrichedNodes

\* C27: a thresholds delivery drives the alarm as a readings delivery
\* does: the readings being unchanged, a delivery that makes the overall
\* status Critical from not Critical activates the alarm, and one that
\* keeps it Critical does not activate it again
C27_ThresholdsDriveAlarm ==
    [][lastEvent' = "thresholds" =>
         /\ readings' = readings
         /\ EntersCritical =>
                /\ Newest(alarmLog').activated
                /\ Newest(alarmLog').haptic
                /\ amberAlertActive'
         /\ (IsCritical /\ warehouseStatus'.overallStatus = "Critical") =>
                /\ ~Newest(alarmLog').activated
                /\ ~Newest(alarmLog').haptic
                /\ amberAlertActive' = amberAlertActive]_vars

\* a thresholds delivery made an At Risk fleet Critical and raised the alarm
C27_Witness ==
    /\ lastEvent = "thresholds"
    /\ IsCritical
    /\ amberAlertActive
    /\ Len(alarmLog) >= 2
    /\ ~alarmLog[Len(alarmLog) - 1].critical
    /\ Newest(alarmLog).activated

-----------------------------------------------------------------------------
(* C24, C28, C29: the snapshot of getWarehouseStatus and what is drawn *)

OverallStatuses == {"Optimal", "At Risk", "Critical", "No Data"}

UnitStatuses == {"Optimal", "At Risk", "Critical", "Offline"}

SnapshotFields ==
    {"overallStatus", "averageTemp", "averageHum", "totalNodes", "onlineNodes",
     "offlineNodes", "atRiskNodesCount", "criticalNodesCount", "lowBatteryNodes",
     "enrichedNodes"}

\* C24: getWarehouseStatus is total: for every readings map, with absent
\* entries and with any of hum, temp, battery and timestamp missing, it
\* returns a snapshot whose overallStatus is one of Optimal, At Risk,
\* Critical, No Data and whose unit statuses are among Optimal, At Risk,
\* Critical, Offline; a unit without timestamp is Offline with a null
\* lastSeenAgo
C24_SnapshotTotal ==
    Computed =>
        /\ DOMAIN warehouseStatus = SnapshotFields
        /\ warehouseStatus.overallStatus \in OverallStatuses
        /\ DOMAIN warehouseStatus.enrichedNodes = Units
        /\ \A k \in Units :
              /\ StatusOf(k) \in UnitStatuses
              /\ ~Has(readings[k], "timestamp") =>
                    /\ StatusOf(k) = "Offline"
                    /\ ~warehouseStatus.enrichedNodes[k].isOnline
                    /\ warehouseStatus.enrichedNodes[k].lastSeenAgo = Null

\* a snapshot of an absent entry, and one of a reading that has a humidity
\* over the margin and no timestamp
C24_Witness ==
    /\ Computed
    /\ Units = {"n1", "n2"}
    /\ readings["n1"] # Null
    /\ DOMAIN readings["n1"] = {"hum"}
    /\ readings["n1"].hum = 67
    /\ StatusOf("n1") = "Offline"
    /\ warehouseStatus.overallStatus = "Critical"

\* C28: the four counts NodeHealthBar draws add up to totalNodes, and the
\* count of its Optimal segment is the number of Optimal units
C28_SegmentsPartitionFleet ==
    Computed =>
        /\ NodeHealthBar(warehouseStatus)[1] + NodeHealthBar(warehouseStatus)[2]
             + NodeHealthBar(warehouseStatus)[3] + NodeHealthBar(warehouseStatus)[4]
               = warehouseStatus.totalNodes
        /\ NodeHealthBar(warehouseStatus)[1] = Cardinality(UnitsWith("Optimal"))

\* C29: the counts of a snapshot agree: totalNodes = onlineNodes +
\* offlineNodes, the At Risk and Critical counts together do not exceed
\* onlineNodes, onlineNodes is the number of records with isOnline true,
\* and every id in lowBatteryNodes is the key of a record with isOnline true
C29_CountsConsistent ==
    Computed =>
        /\ warehouseStatus.totalNodes =
               warehouseStatus.onlineNodes + warehouseStatus.offlineNodes
        /\ warehouseStatus.atRiskNodesCount + warehouseStatus.criticalNodesCount
               <= warehouseStatus.onlineNodes
        /\ warehouseStatus.onlineNodes =
               Cardinality({k \in DOMAIN warehouseStatus.enrichedNodes :
                               warehouseStatus.enrichedNodes[k].isOnline})
        /\ \A i \in 1..Len(warehouseStatus.lowBatteryNodes) :
               /\ warehouseStatus.lowBatteryNodes[i] \in DOMAIN warehouseStatus.enrichedNodes
               /\ warehouseStatus.enrichedNodes[warehouseStatus.lowBatteryNodes[i]].isOnline

\* a snapshot of an online unit with a low battery next to a silent unit
\* whose battery is low as well
C29_Witness ==
    /\ Computed
    /\ Units = {"n1", "n2"}
    /\ warehouseStatus.onlineNodes = 1
    /\ warehouseStatus.offlineNodes = 1
    /\ StatusOf("n1") = "Offline"
    /\ LowBattery(readings["n1"], thresholds)
    /\ Len(warehouseStatus.lowBatteryNodes) = 1
    /\ warehouseStatus.lowBatteryNodes[1] = "n2"

====
